---- MODULE Spec2Model ----
(***************************************************************************)
(* Model of jpeg_to_pdf_converter.py: main(), convert_jpegs_to_pdf() and   *)
(* apply_exif_orientation().  The file chooser, the notifier, the image    *)
(* codec and the file system are the environment: what they return or      *)
(* raise is chosen nondeterministically at the step that calls them.       *)
(***************************************************************************)
EXTENDS Integers, Sequences, FiniteSets, TLC

\* ------------------------------------------------------------------ bounds
MaxFiles == 2        \* longest list of selected files
MaxPaths == 2        \* number of distinct file paths the chooser can return
MaxOrientation == 9  \* largest value of EXIF tag 274 the environment supplies

\* --------------------------------------------------------- input domains
Paths == 1..MaxPaths
FileLists == UNION {[1..n -> Paths] : n \in 0..MaxFiles}
\* What the open dialog can return: a selection of distinct files (empty when
\* cancelled).
Selections == {fs \in FileLists : \A j, k \in 1..Len(fs) : j # k => fs[j] # fs[k]}
OutPaths == {"", "out.pdf"}
Modes == {"RGB", "L", "CMYK"}
\* exif.get(274): <<>> when the key is absent (None), <<v>> for the value v.
NoTag == <<>>
Orientations == 0..MaxOrientation

\* Pixel dimensions of the file at path p (width # height, so a swap shows).
FileWidth(p) == p + 1
FileHeight(p) == 2 * p + 1

\* Exception types the EXIF read of line 118/122 can end in.
ExifExcTypes == {"AttributeError", "KeyError", "TypeError", "ValueError", "SyntaxError"}
\* The types named by the except clause of line 145.
CaughtExifTypes == {"AttributeError", "KeyError", "TypeError"}

\* Outcome of image._getexif() followed by exif.get(274):
\*   raise - the read raised exc;  none - _getexif() returned None;
\*   dict  - a mapping whose tag 274 is tag (NoTag: the key is absent).
ExifReads ==
    [kind : {"raise"}, exc : ExifExcTypes, tag : {NoTag}]
    \cup [kind : {"none"}, exc : {"-"}, tag : {NoTag}]
    \cup [kind : {"dict"}, exc : {"-"}, tag : {NoTag} \cup {<<o>> : o \in Orientations}]

\* An image: src/path - the input it was opened from; mode - its colour mode;
\* orig - the mode Image.open reported; conv - whether convert() produced it;
\* w, h - pixel size; rot - counter-clockwise degrees it has been rotated by.
NoImage == [src |-> 0, path |-> 0, mode |-> "-", orig |-> "-", conv |-> FALSE,
            w |-> 0, h |-> 0, rot |-> 0]
NoExc == [type |-> "-", msg |-> "-"]
NoCall == [before |-> NoImage, read |-> [kind |-> "-", exc |-> "-", tag |-> NoTag],
           kind |-> "-", image |-> NoImage]

VARIABLES
    pc,               \* position in main / convert_jpegs_to_pdf
    caller,           \* "main" or "direct" (convert_jpegs_to_pdf called on its own)
    jpeg_files,       \* the ordered input paths
    output_path,      \* the destination path
    i,                \* loop index (1-based) of lines 276 and 185
    img,              \* the image of the current iteration
    processed_images, \* the page collection
    result,           \* return value of convert_jpegs_to_pdf: "none", "true", "false"
    exc,              \* the exception in flight
    openFailed,       \* indices whose Image.open raised
    attempted,        \* number of Image.open calls made
    lastExif,         \* the apply_exif_orientation call of the current iteration
    abortStage,       \* the step whose exception left the loop / the try block
    saveCalls,        \* number of calls of Image.save
    codecPages,       \* the page sequence handed to Image.save
    destFile,         \* what this run left at output_path: "none", "partial", "complete"
    errorNotifs,      \* messagebox.showerror calls
    successNotifs,    \* messagebox.showinfo calls
    shown,            \* dialogs shown, in order
    convertCalls      \* number of calls of convert_jpegs_to_pdf

vars == <<pc, caller, jpeg_files, output_path, i, img, processed_images, result, exc,
          openFailed, attempted, lastExif, abortStage, saveCalls, codecPages, destFile,
          errorNotifs, successNotifs, shown, convertCalls>>

convVars == <<img, processed_images, result, exc, openFailed, attempted, lastExif,
              abortStage, saveCalls, codecPages, destFile, errorNotifs>>

Init ==
    /\ pc = "start"
    /\ caller = "none"
    /\ jpeg_files = <<>>
    /\ output_path = ""
    /\ i = 0
    /\ img = NoImage
    /\ processed_images = <<>>
    /\ result = "none"
    /\ exc = NoExc
    /\ openFailed = {}
    /\ attempted = 0
    /\ lastExif = NoCall
    /\ abortStage = "none"
    /\ saveCalls = 0
    /\ codecPages = <<>>
    /\ destFile = "none"
    /\ errorNotifs = <<>>
    /\ successNotifs = <<>>
    /\ shown = <<>>
    /\ convertCalls = 0

\* ------------------------------------------------ apply_exif_orientation
\* PIL Image.rotate(angle, expand=True): counter-clockwise, canvas grown to
\* the rotated bounding box.
Rotate(image, angle) ==
    [image EXCEPT !.w = IF angle \in {90, 270} THEN image.h ELSE image.w,
                  !.h = IF angle \in {90, 270} THEN image.w ELSE image.h,
                  !.rot = (image.rot + angle) % 360]

\* The if/elif chain of lines 124-143: the angle rotated by, 0 for none.
\* A slip that exchanges the corrections of codes 6 and 8.
OrientationAngleSwapped(orientation) ==
    IF orientation = NoTag \/ orientation = <<0>> THEN 0
    ELSE IF orientation = <<3>> THEN 180
    ELSE IF orientation = <<6>> THEN 90
    ELSE IF orientation = <<8>> THEN 270
    ELSE 0

OrientationAngle(orientation) ==
    IF orientation = NoTag \/ orientation = <<0>> THEN 0
    ELSE IF orientation = <<3>> THEN 180
    ELSE IF orientation = <<6>> THEN 270
    ELSE IF orientation = <<8>> THEN 90
    ELSE 0

\* The whole function: [kind |-> "return", image] or [kind |-> "raise", exc].
\* rotOk: whether image.rotate (which decodes the pixel data) succeeds.
apply_exif_orientation(image, read, rotOk) ==
    IF read.kind = "raise"
    THEN IF read.exc \in CaughtExifTypes
         THEN [kind |-> "return", image |-> image, exc |-> NoExc, stage |-> "-"]
         ELSE [kind |-> "raise", image |-> image,
               exc |-> [type |-> read.exc, msg |-> "bad exif"], stage |-> "exif"]
    ELSE IF read.kind = "none"
    THEN [kind |-> "return", image |-> image, exc |-> NoExc, stage |-> "-"]
    ELSE LET angle == OrientationAngle(read.tag) IN
         IF angle = 0
         THEN [kind |-> "return", image |-> image, exc |-> NoExc, stage |-> "-"]
         ELSE IF rotOk
         THEN [kind |-> "return", image |-> Rotate(image, angle), exc |-> NoExc,
               stage |-> "-"]
         ELSE [kind |-> "raise", image |-> image,
               exc |-> [type |-> "OSError", msg |-> "image file is truncated"],
               stage |-> "rotate"]

\* ---------------------------------------------------------------- main
\* Lines 264-272: the open dialog and the check of its result.
SelectJpegFiles ==
    /\ pc = "start"
    /\ \E fs \in Selections :
         /\ jpeg_files' = fs
         /\ IF fs = <<>>
            THEN pc' = "done" /\ i' = i
            ELSE pc' = "inspect" /\ i' = 1
    /\ caller' = "main"
    /\ shown' = Append(shown, "open")
    /\ UNCHANGED <<output_path, successNotifs, convertCalls>>
    /\ UNCHANGED convVars

\* Lines 275-278: one iteration of the listing loop; os.path.getsize may raise.
InspectFile ==
    /\ pc = "inspect"
    /\ \E statOk \in BOOLEAN :
         IF ~statOk
         THEN /\ pc' = "crashed"
              /\ exc' = [type |-> "OSError", msg |-> "no such file"]
              /\ abortStage' = "inspect"
              /\ i' = i
         ELSE /\ IF i < Len(jpeg_files)
                 THEN pc' = "inspect" /\ i' = i + 1
                 ELSE pc' = "save_dialog" /\ i' = i
              /\ UNCHANGED <<exc, abortStage>>
    /\ UNCHANGED <<caller, jpeg_files, output_path, img, processed_images, result,
                   openFailed, attempted, lastExif, saveCalls, codecPages, destFile,
                   errorNotifs, successNotifs, shown, convertCalls>>

\* A slip that omits the check of the save dialog's result.
SelectOutputPathUnchecked ==
    /\ pc = "save_dialog"
    /\ \E out \in OutPaths : output_path' = out
    /\ pc' = "validate"
    /\ shown' = Append(shown, "save")
    /\ UNCHANGED <<caller, jpeg_files, i, successNotifs, convertCalls>>
    /\ UNCHANGED convVars

\* Lines 280-294: the save dialog, the check of its result, the call.
SelectOutputPath ==
    /\ pc = "save_dialog"
    /\ \E out \in OutPaths :
         /\ output_path' = out
         /\ pc' = IF out = "" THEN "done" ELSE "validate"
    /\ shown' = Append(shown, "save")
    /\ UNCHANGED <<caller, jpeg_files, i, successNotifs, convertCalls>>
    /\ UNCHANGED convVars

\* convert_jpegs_to_pdf called by other code with arguments of its own.
DirectCall ==
    /\ pc = "start"
    /\ \E fs \in FileLists, out \in OutPaths :
         /\ jpeg_files' = fs
         /\ output_path' = out
    /\ caller' = "direct"
    /\ pc' = "validate"
    /\ UNCHANGED <<i, successNotifs, shown, convertCalls>>
    /\ UNCHANGED convVars

\* ------------------------------------------------- convert_jpegs_to_pdf
\* Lines 169-182: argument validation, then the empty page collection.
ConvertValidate ==
    /\ pc = "validate"
    /\ convertCalls' = convertCalls + 1
    /\ IF jpeg_files = <<>> \/ output_path = ""
       THEN /\ result' = "false"
            /\ pc' = "returned"
            /\ UNCHANGED <<i, processed_images>>
       ELSE /\ processed_images' = <<>>
            /\ i' = 1
            /\ pc' = "open"
            /\ UNCHANGED result
    /\ UNCHANGED <<caller, jpeg_files, output_path, img, exc, openFailed, attempted,
                   lastExif, abortStage, saveCalls, codecPages, destFile, errorNotifs,
                   successNotifs, shown>>

\* The for statement of line 185 moving to the next item or leaving the loop.
NextItemPc == IF i < Len(jpeg_files) THEN "open" ELSE "check"
NextItemI == IF i < Len(jpeg_files) THEN i + 1 ELSE i

\* Lines 188-194: Image.open; a failure is caught and the item skipped.
OpenImage ==
    /\ pc = "open"
    /\ attempted' = attempted + 1
    /\ \E ok \in BOOLEAN, m \in Modes :
         IF ok
         THEN /\ img' = [src |-> i, path |-> jpeg_files[i], mode |-> m, orig |-> m,
                         conv |-> FALSE,
                         w |-> FileWidth(jpeg_files[i]), h |-> FileHeight(jpeg_files[i]),
                         rot |-> 0]
              /\ pc' = "exif"
              /\ UNCHANGED <<i, openFailed>>
         ELSE /\ m = "RGB"
              /\ openFailed' = openFailed \cup {i}
              /\ pc' = NextItemPc
              /\ i' = NextItemI
              /\ UNCHANGED img
    /\ UNCHANGED <<caller, jpeg_files, output_path, processed_images, result, exc,
                   lastExif, abortStage, saveCalls, codecPages, destFile, errorNotifs,
                   successNotifs, shown, convertCalls>>

\* Lines 196-197: the call of apply_exif_orientation.
ApplyExifOrientation ==
    /\ pc = "exif"
    /\ \E read \in ExifReads, rotOk \in BOOLEAN :
         LET r == apply_exif_orientation(img, read, rotOk) IN
         /\ lastExif' = [before |-> img, read |-> read, kind |-> r.kind, image |-> r.image]
         /\ IF r.kind = "return"
            THEN /\ img' = r.image
                 /\ pc' = "rgb"
                 /\ UNCHANGED <<exc, abortStage>>
            ELSE /\ exc' = r.exc
                 /\ abortStage' = r.stage
                 /\ pc' = "except"
                 /\ UNCHANGED img
    /\ UNCHANGED <<caller, jpeg_files, output_path, i, processed_images, result,
                   openFailed, attempted, saveCalls, codecPages, destFile, errorNotifs,
                   successNotifs, shown, convertCalls>>

\* PIL Image.convert(mode): a new image of that mode.
Convert(image, mode) == [image EXCEPT !.mode = mode, !.conv = TRUE]

\* A slip that appends the image without the mode coercion.
ConvertToRGBSkipped ==
    /\ pc = "rgb"
    /\ processed_images' = Append(processed_images, img)
    /\ pc' = IF i < Len(jpeg_files) THEN "open" ELSE "check"
    /\ i' = IF i < Len(jpeg_files) THEN i + 1 ELSE i
    /\ lastExif' = NoCall
    /\ UNCHANGED <<caller, jpeg_files, output_path, img, result, exc, abortStage,
                   openFailed, attempted, saveCalls, codecPages, destFile, errorNotifs,
                   successNotifs, shown, convertCalls>>

\* Lines 199-210: the mode coercion and the append.
ConvertToRGB ==
    /\ pc = "rgb"
    /\ \E convOk \in BOOLEAN :
         IF img.mode # "RGB"
         THEN IF convOk
              THEN /\ processed_images' =
                        Append(processed_images, Convert(img, "RGB"))
                   /\ pc' = NextItemPc
                   /\ i' = NextItemI
                   /\ UNCHANGED <<exc, abortStage>>
              ELSE /\ exc' = [type |-> "OSError", msg |-> "image file is truncated"]
                   /\ abortStage' = "convert"
                   /\ pc' = "except"
                   /\ UNCHANGED <<processed_images, i>>
         ELSE /\ convOk
              /\ processed_images' = Append(processed_images, img)
              /\ pc' = NextItemPc
              /\ i' = NextItemI
              /\ UNCHANGED <<exc, abortStage>>
    /\ lastExif' = NoCall
    /\ UNCHANGED <<caller, jpeg_files, output_path, img, result, openFailed, attempted,
                   saveCalls, codecPages, destFile, errorNotifs,
                   successNotifs, shown, convertCalls>>

\* Lines 212-215: nothing survived.
CheckProcessed ==
    /\ pc = "check"
    /\ IF processed_images = <<>>
       THEN result' = "false" /\ pc' = "returned"
       ELSE result' = result /\ pc' = "save"
    /\ UNCHANGED <<caller, jpeg_files, output_path, i, img, processed_images, exc,
                   openFailed, attempted, lastExif, abortStage, saveCalls, codecPages,
                   destFile, errorNotifs, successNotifs, shown, convertCalls>>

\* Lines 222-228: Image.save of the first page with the rest appended.  The
\* codec either writes the document, or raises before creating the file, or
\* raises after it has started writing it.
SavePdf ==
    /\ pc = "save"
    /\ saveCalls' = saveCalls + 1
    /\ codecPages' = <<processed_images[1]>> \o
                     (IF Len(processed_images) > 1 THEN Tail(processed_images) ELSE <<>>)
    /\ \E outcome \in {"ok", "fail_before", "fail_during"} :
         IF outcome = "ok"
         THEN /\ destFile' = "complete"
              /\ pc' = "size"
              /\ UNCHANGED <<exc, abortStage>>
         ELSE /\ destFile' = IF outcome = "fail_during" THEN "partial" ELSE destFile
              /\ exc' = [type |-> "OSError", msg |-> "cannot write"]
              /\ abortStage' = "save"
              /\ pc' = "except"
    /\ UNCHANGED <<caller, jpeg_files, output_path, i, img, processed_images, result,
                   openFailed, attempted, lastExif, errorNotifs, successNotifs, shown,
                   convertCalls>>

\* Lines 230-234: the size report (os.path.getsize may raise) and return True.
ReportSize ==
    /\ pc = "size"
    /\ \E statOk \in BOOLEAN :
         IF statOk
         THEN /\ result' = "true"
              /\ pc' = "returned"
              /\ UNCHANGED <<exc, abortStage>>
         ELSE /\ exc' = [type |-> "OSError", msg |-> "cannot stat"]
              /\ abortStage' = "size"
              /\ pc' = "except"
              /\ UNCHANGED result
    /\ UNCHANGED <<caller, jpeg_files, output_path, i, img, processed_images,
                   openFailed, attempted, lastExif, saveCalls, codecPages, destFile,
                   errorNotifs, successNotifs, shown, convertCalls>>

\* A slip that reports the failure on the console only.
ExceptHandlerSilent ==
    /\ pc = "except"
    /\ result' = "false"
    /\ pc' = "returned"
    /\ lastExif' = NoCall
    /\ UNCHANGED <<caller, jpeg_files, output_path, i, img, processed_images, exc,
                   openFailed, attempted, abortStage, saveCalls, codecPages,
                   destFile, errorNotifs, successNotifs, shown, convertCalls>>

\* Lines 236-242: the handler of the outer try.
ExceptHandler ==
    /\ pc = "except"
    /\ errorNotifs' = Append(errorNotifs,
                             [title |-> "Conversion Error",
                              text |-> <<"Failed to create PDF: ", exc.msg>>])
    /\ result' = "false"
    /\ pc' = "returned"
    /\ lastExif' = NoCall
    /\ UNCHANGED <<caller, jpeg_files, output_path, i, img, processed_images, exc,
                   openFailed, attempted, abortStage, saveCalls, codecPages,
                   destFile, successNotifs, shown, convertCalls>>

\* Lines 296-316: main's report of the result.
ShowResult ==
    /\ pc = "returned"
    /\ caller = "main"
    /\ IF result = "true"
       THEN \E statOk \in BOOLEAN :
              IF statOk
              THEN /\ successNotifs' = Append(successNotifs,
                                              [pages |-> Len(jpeg_files),
                                               location |-> output_path])
                   /\ pc' = "done"
                   /\ UNCHANGED <<exc, abortStage>>
              ELSE /\ exc' = [type |-> "OSError", msg |-> "cannot stat"]
                   /\ abortStage' = "report"
                   /\ pc' = "crashed"
                   /\ UNCHANGED successNotifs
       ELSE /\ pc' = "done"
            /\ UNCHANGED <<successNotifs, exc, abortStage>>
    /\ UNCHANGED <<caller, jpeg_files, output_path, i, img, processed_images, result,
                   openFailed, attempted, lastExif, saveCalls, codecPages, destFile,
                   errorNotifs, shown, convertCalls>>

\* The direct caller receives the return value.
DirectReturn ==
    /\ pc = "returned"
    /\ caller = "direct"
    /\ pc' = "done"
    /\ UNCHANGED <<caller, jpeg_files, output_path, i, img, processed_images, result,
                   exc, openFailed, attempted, lastExif, abortStage, saveCalls,
                   codecPages, destFile, errorNotifs, successNotifs, shown,
                   convertCalls>>

Next ==
    \/ SelectJpegFiles
    \/ InspectFile
    \/ SelectOutputPath
    \/ DirectCall
    \/ ConvertValidate
    \/ OpenImage
    \/ ApplyExifOrientation
    \/ ConvertToRGB
    \/ CheckProcessed
    \/ SavePdf
    \/ ReportSize
    \/ ExceptHandler
    \/ ShowResult
    \/ DirectReturn

Spec == Init /\ [][Next]_vars

\* ------------------------------------------------------------ properties
\* The indices of jpeg_files whose Image.open did not raise, in input order.
SurvivorIdx ==
    SelectSeq([k \in 1..Len(jpeg_files) |-> k], LAMBDA k : k \notin openFailed)

PageSrc(pages) == [k \in 1..Len(pages) |-> pages[k].src]

ConvertReturned == pc \in {"returned", "done"} /\ convertCalls = 1

\* C1: when convert_jpegs_to_pdf has returned for a non-empty list of N paths
\* and a non-empty destination, every input has been tried and K < N of them
\* failed to open, the codec was handed exactly the N-K inputs that opened, in
\* input order, each once per occurrence, the first of them as the base page.
C1_CodecGetsSurvivorsInOrder ==
    (/\ ConvertReturned
     /\ jpeg_files # <<>>
     /\ output_path # ""
     /\ attempted = Len(jpeg_files)
     /\ Cardinality(openFailed) < Len(jpeg_files))
    => /\ saveCalls = 1
       /\ Len(codecPages) = Len(jpeg_files) - Cardinality(openFailed)
       /\ PageSrc(codecPages) = SurvivorIdx
       /\ \A k \in 1..Len(codecPages) : codecPages[k].path = jpeg_files[codecPages[k].src]

\* C2: whenever apply_exif_orientation returns, its result is the input image
\* rotated 180 degrees for code 3, 270 degrees counter-clockwise for code 6,
\* 90 degrees counter-clockwise for code 8 (width and height exchanged for
\* 90/270, kept for 180), and the input image itself for code 1, codes
\* 2/4/5/7, any other value, an absent tag and an absent or unreadable block.
C2_OrientationMapping ==
    (pc = "rgb" /\ lastExif.kind = "return")
    => LET b == lastExif.before
           a == lastExif.image
           t == IF lastExif.read.kind = "dict" THEN lastExif.read.tag ELSE <<>>
       IN /\ img = a
          /\ a.src = b.src /\ a.path = b.path /\ a.mode = b.mode
          /\ t = <<3>> => a.rot = (b.rot + 180) % 360 /\ a.w = b.w /\ a.h = b.h
          /\ t = <<6>> => a.rot = (b.rot + 270) % 360 /\ a.w = b.h /\ a.h = b.w
          /\ t = <<8>> => a.rot = (b.rot + 90) % 360 /\ a.w = b.h /\ a.h = b.w
          /\ t \notin {<<3>>, <<6>>, <<8>>} => a = b

C2_Witness ==
    /\ pc = "rgb"
    /\ lastExif.kind = "return"
    /\ lastExif.read.tag = <<6>>
    /\ img.rot = 270
    /\ img.w = lastExif.before.h
    /\ img.w # img.h

\* C3: an exception raised while one item is processed (EXIF read, rotation,
\* RGB conversion) never leaves the loop once another item has already been
\* fully processed: the run is not aborted by it.
C3_ItemFailureNeverAborts ==
    ~(/\ abortStage \in {"exif", "rotate", "convert"}
      /\ Len(processed_images) >= 1)

\* C4: whatever exception the EXIF read raises, apply_exif_orientation
\* returns, and returns its input image unrotated.
C4_ExifReadNeverRaises ==
    lastExif.read.kind = "raise"
    => lastExif.kind = "return" /\ lastExif.image = lastExif.before

\* C5: whenever convert_jpegs_to_pdf has returned False, the run has left no
\* file at the destination path.
C5_FailureLeavesNoFile ==
    result = "false" => destFile = "none"

\* C6: when a run has ended and every input failed to open, the error
\* notifier has been invoked.
C6_EmptyResultNotified ==
    (/\ pc = "done"
     /\ convertCalls = 1
     /\ jpeg_files # <<>>
     /\ output_path # ""
     /\ Cardinality(openFailed) = Len(jpeg_files))
    => result = "false" /\ Len(errorNotifs) >= 1

\* C7: the page count of every success notification equals the number of
\* pages written, which is the number of inputs that opened.
C7_PayloadPageCount ==
    \A k \in 1..Len(successNotifs) :
        /\ successNotifs[k].pages = Len(codecPages)
        /\ successNotifs[k].pages = Len(jpeg_files) - Cardinality(openFailed)

\* C8: after a failure of Image.save the program never ends in an uncaught
\* exception, and once convert_jpegs_to_pdf has returned it has returned
\* False, the error notifier has been invoked exactly once, with the
\* exception's message, and no success notification has been shown.
C8_WriteFailureCaught ==
    abortStage = "save"
    => /\ pc \in {"except", "returned", "done"}
       /\ pc \in {"returned", "done"}
          => /\ result = "false"
             /\ Len(errorNotifs) = 1
             /\ errorNotifs[1].text = <<"Failed to create PDF: ", exc.msg>>
             /\ successNotifs = <<>>

C8_Witness ==
    /\ abortStage = "save"
    /\ caller = "main"
    /\ pc = "done"
    /\ result = "false"
    /\ Len(errorNotifs) = 1

\* C9: every element of the page collection, and so every page handed to the
\* codec, is in RGB mode; it went through convert() exactly when the opened
\* image was not RGB.
C9_PagesAreRGB ==
    /\ \A k \in 1..Len(processed_images) :
         /\ processed_images[k].mode = "RGB"
         /\ processed_images[k].conv = (processed_images[k].orig # "RGB")
    /\ \A k \in 1..Len(codecPages) :
         /\ codecPages[k].mode = "RGB"
         /\ codecPages[k].conv = (codecPages[k].orig # "RGB")

C9_Witness ==
    /\ saveCalls = 1
    /\ Len(codecPages) = 2
    /\ codecPages[1].orig = "CMYK" /\ codecPages[1].conv
    /\ codecPages[2].orig = "RGB" /\ ~codecPages[2].conv

CancelledOpen == caller = "main" /\ shown # <<>> /\ jpeg_files = <<>>
CancelledSave == caller = "main" /\ Len(shown) = 2 /\ output_path = ""

\* C10: after a cancelled dialog main has ended without calling
\* convert_jpegs_to_pdf, opening an image, writing a file or notifying, and a
\* cancelled open dialog is not followed by the save dialog.
C10_CancelExitsEarly ==
    (CancelledOpen \/ CancelledSave)
    => /\ pc = "done"
       /\ convertCalls = 0
       /\ attempted = 0
       /\ saveCalls = 0
       /\ destFile = "none"
       /\ errorNotifs = <<>>
       /\ successNotifs = <<>>
       /\ CancelledOpen => shown = <<"open">>

C10_Witness ==
    /\ CancelledSave
    /\ pc = "done"
    /\ shown = <<"open", "save">>
    /\ Len(jpeg_files) = 2


TypeOK ==
    /\ pc \in {"start", "inspect", "save_dialog", "validate", "open", "exif", "rgb",
               "check", "save", "size", "except", "returned", "done", "crashed"}
    /\ caller \in {"none", "main", "direct"}
    /\ jpeg_files \in FileLists
    /\ output_path \in OutPaths
    /\ result \in {"none", "true", "false"}
    /\ destFile \in {"none", "partial", "complete"}
====
